---------------------------- MODULE Spec2Model ----------------------------
(***************************************************************************)
(* Lightning data pipeline: the ingestion supervisor of src/ingest.py      *)
(* (storage handle construction, the websocket frame handler, the          *)
(* reconnect loop of main), the proximity query and the statistics         *)
(* endpoint of src/api.py, and the decoder's functions (byte substitution, *)
(* timestamp normalization, longitude repair, validation) applied to       *)
(* inputs drawn from bounded sets.                                         *)
(*                                                                         *)
(* Library behaviour the model relies on:                                  *)
(*  - psycopg2: a statement the store rejects raises inside the handler's  *)
(*    try block; rollback() and close() on the handle do not raise.        *)
(*  - websocket-client: run_forever() reports a transport error or a       *)
(*    close through on_error/on_close and then RETURNS; the model also     *)
(*    lets it raise, the case the except clause of main is written for.    *)
(*    KeyboardInterrupt propagates out of run_forever (main line 397).     *)
(***************************************************************************)
EXTENDS Integers, Sequences, FiniteSets, TLC

VARIABLES
    pc,             \* control point of the ingestion process
    phase,          \* "startup": module-level db (line 332); "loop": inside main
    attempt,        \* loop variable of LightningDatabase.connect
    slept,          \* time.sleep(retry_delay) calls made by the running connect
    dbOpen,         \* the connection of the handle bound to the global db is open
    newOpen,        \* the connection of the handle under construction is open
    leaked,         \* open connections no name refers to any more (saturating)
    stats,          \* the ingestion_stats row
    strikes,        \* number of rows of lightning_strikes
    frames,         \* frames handed to on_data so far
    base,           \* total_received before the process started (0: no row yet)
    last,           \* what the most recent on_data call did
    everConnected,  \* an upstream websocket connection was opened at least once
    stopped,        \* KeyboardInterrupt was delivered
    table,          \* lightning_strikes as the query reads it, oldest first
    query,          \* parameters of the most recent /strikes/nearby request
    result,         \* its response
    call,           \* the function or endpoint most recently applied, with its input
    ret             \* what it returned

supVars == <<pc, phase, attempt, slept, dbOpen, newOpen, leaked, stats, strikes,
             frames, base, last, everConnected, stopped>>
qVars == <<table, query, result>>
fnVars == <<call, ret>>
vars == <<pc, phase, attempt, slept, dbOpen, newOpen, leaked, stats, strikes,
          frames, base, last, everConnected, stopped, table, query, result,
          call, ret>>

-----------------------------------------------------------------------------
(* Bounds of the model *)

MaxFrames == 3
MaxLeaked == 1
MaxRows == 4
MaxLimit == 2
MaxReceived == 10
MaxBytes == 4

(* Program constants *)

max_retries == 5

Min(a, b) == IF a < b THEN a ELSE b
Abs(x) == IF x < 0 THEN -x ELSE x

RECURSIVE Pow10(_)
Pow10(k) == IF k = 0 THEN 1 ELSE 10 * Pow10(k - 1)

-----------------------------------------------------------------------------
(* Decimal numbers n * 10^-e, the values float() yields for the matched    *)
(* coordinate strings.                                                     *)

Dec(n, e) == [k |-> "num", n |-> n, e |-> e]
NoMatch == [k |-> "none", n |-> 0, e |-> 0]     \* the field's regex did not match
Unparsable == [k |-> "bad", n |-> 0, e |-> 0]   \* matched, float() raises ValueError

\* abs(x) > bound for a decimal x
AbsGreater(x, bound) == Abs(x.n) > bound * Pow10(x.e)

\* number of characters of str(m) for m >= 0
RECURSIVE StrLen(_)
StrLen(m) == IF m < 10 THEN 1 ELSE 1 + StrLen(m \div 10)

\* a scan without the break: the last position that qualifies wins
RECURSIVE ScanPositionsLast(_, _, _)
ScanPositionsLast(m, len, i) ==
    IF i >= len THEN [found |-> FALSE, e |-> 0]
    ELSE LET rest == ScanPositionsLast(m, len, i + 1)
         IN  IF rest.found THEN rest
             ELSE IF \/ m \div Pow10(len - i) < 180
                     \/ m \div Pow10(len - i) = 180 /\ m % Pow10(len - i) = 0
                  THEN [found |-> TRUE, e |-> len - i]
                  ELSE rest

\* _fix_longitude, lines 281-306.  For the scanning branch float(s[:i]+'.'+s[i:])
\* is the digit string s read with len(s)-i decimals.
RECURSIVE ScanPositions(_, _, _)
ScanPositions(m, len, i) ==
    IF i >= len THEN [found |-> FALSE, e |-> 0]
    ELSE IF \/ m \div Pow10(len - i) < 180                  \* test_val <= 180
            \/ m \div Pow10(len - i) = 180 /\ m % Pow10(len - i) = 0
         THEN [found |-> TRUE, e |-> len - i]
    ELSE ScanPositions(m, len, i + 1)

\* a repair that keeps three integer digits of an 8 digit string
FixLongitudeThree(lon) ==
    IF lon.k # "num" THEN Unparsable
    ELSE IF AbsGreater(lon, 1000)
    THEN LET m == Abs(lon.n) \div Pow10(lon.e)
             len == StrLen(m)
             sign == IF lon.n < 0 THEN -1 ELSE 1
         IN  IF len >= 6
             THEN IF len = 8 THEN Dec(sign * m, len - 3)
                  ELSE IF len = 7 THEN Dec(sign * m, len - 2)
                  ELSE LET s == ScanPositions(m, len, 1)
                       IN  IF s.found THEN Dec(sign * m, s.e)
                           ELSE Dec(sign * lon.n, lon.e)
             ELSE lon
    ELSE lon

FixLongitude(lon) ==
    IF lon.k # "num" THEN Unparsable                       \* except: return None
    ELSE IF AbsGreater(lon, 1000)
    THEN LET m == Abs(lon.n) \div Pow10(lon.e)             \* abs(int(value))
             len == StrLen(m)
             sign == IF lon.n < 0 THEN -1 ELSE 1
         IN  IF len >= 6
             THEN IF len = 8 \/ len = 7
                  THEN Dec(sign * m, len - 2)
                  ELSE LET s == ScanPositions(m, len, 1)
                       IN  IF s.found THEN Dec(sign * m, s.e)
                           \* corrected = value, negated again when value < 0
                           ELSE Dec(sign * lon.n, lon.e)
             ELSE lon
    ELSE lon

\* a validator that rejects the bounds themselves
ValidateStrikeStrict(lat, lon) ==
    IF lat.k # "num" \/ lon.k # "num" THEN FALSE
    ELSE IF \/ Abs(lat.n) >= 90 * Pow10(lat.e)
            \/ Abs(lon.n) >= 180 * Pow10(lon.e) THEN FALSE
    ELSE TRUE

\* _validate_strike, lines 308-323
ValidateStrike(lat, lon) ==
    IF lat.k # "num" \/ lon.k # "num" THEN FALSE
    ELSE IF AbsGreater(lat, 90) \/ AbsGreater(lon, 180) THEN FALSE
    ELSE TRUE

-----------------------------------------------------------------------------
(* Frames, by what the regular expressions of _extract_fields find in the  *)
(* decoded text.  The substitution and the utf-8 decoding with             *)
(* errors='replace' (lines 207-211) always yield a text; undecodable bytes *)
(* show as fields that do not match or do not parse.                       *)

TimeKinds == {"none", "ok", "overflow"}   \* no match | int | fromtimestamp raises
OptKinds == {"ok", "bad"}                 \* alt/mds/mcg: absent or parsed | int(float()) raises

LatValues == {NoMatch, Unparsable, Dec(90, 0), Dec(-900001, 4)}
LonValues == {NoMatch, Unparsable, Dec(-180, 0), Dec(1800001, 4), Dec(1604008, 0)}

Frames == [time : TimeKinds, lat : LatValues, lon : LonValues, opt : OptKinds]

NoStrike == [kind |-> "none", lat |-> NoMatch, lon |-> NoMatch]
Raised == [kind |-> "raise", lat |-> NoMatch, lon |-> NoMatch]
Strike(lat, lon) == [kind |-> "rec", lat |-> lat, lon |-> lon]

\* the try body of _extract_fields, lines 229-276
ExtractBody(f) ==
    IF f.time = "none" THEN NoStrike
    ELSE IF f.time = "overflow" THEN Raised
    ELSE IF f.lat.k = "none" \/ f.lon.k = "none" THEN NoStrike
    ELSE IF f.lat.k = "bad" THEN Raised
    ELSE IF f.opt = "bad" THEN Raised
    ELSE Strike(f.lat, FixLongitude(f.lon))

\* _extract_fields with its except clause, lines 226-279
ExtractFields(f) ==
    LET r == ExtractBody(f) IN IF r.kind = "raise" THEN NoStrike ELSE r

\* a decode that lets an error of the pipeline out
DecodeNoCatch(f) ==
    LET r == ExtractBody(f)
    IN  IF r.kind = "rec" /\ ~ValidateStrike(r.lat, r.lon) THEN NoStrike ELSE r

\* BlitzortungDecoder.decode, lines 201-224
Decode(f) ==
    LET r == ExtractFields(f)
    IN  IF r.kind = "rec" /\ ValidateStrike(r.lat, r.lon) THEN r ELSE NoStrike

-----------------------------------------------------------------------------
(* The store *)

Row(r, s, f) == [exists |-> TRUE, received |-> r, stored |-> s, failed |-> f]
NoRow == [exists |-> FALSE, received |-> 0, stored |-> 0, failed |-> 0]

InitStats == {NoRow, Row(0, 0, 0), Row(3, 2, 1)}

\* a create_tables that writes the zero row unconditionally
EnsureStatsRowReset(st) == Row(0, 0, 0)

\* the second statement of create_tables, lines 80-93
EnsureStatsRow(st) == IF st.exists THEN st ELSE Row(0, 0, 0)

\* an update that commits total_received by a statement of its own, before
\* the statement for the two other counters
UpdateStatsSplit(st, ok, r, s, f) ==
    IF ~st.exists THEN st
    ELSE IF ok THEN Row(st.received + r, st.stored + s, st.failed + f)
    ELSE Row(st.received + r, st.stored, st.failed)

\* update_stats, lines 123-138: the UPDATE commits, or it raises and is rolled back
UpdateStats(st, ok, r, s, f) ==
    IF ok /\ st.exists
    THEN Row(st.received + r, st.stored + s, st.failed + f)
    ELSE st

NoEvent == [outcome |-> "none", inserted |-> FALSE, statsOk |-> FALSE,
            escaped |-> FALSE]

\* insert_strike, lines 98-121: the INSERT commits, or it raises and is rolled back
InsertStrike(n, ok) == IF ok THEN n + 1 ELSE n

-----------------------------------------------------------------------------
(* Storage handle construction: LightningDatabase.__init__, lines 24-27,   *)
(* run at module level (line 332) and at the top of main's loop (384).     *)

\* An exception leaves LightningDatabase(): uncaught at module level, caught
\* by "except Exception" in main (lines 401-406: db.close(), time.sleep(5)).
ConstructFailed ==
    IF phase = "startup"
    THEN /\ pc' = "aborted"
         /\ UNCHANGED dbOpen
    ELSE /\ pc' = "backoff"
         /\ dbOpen' = FALSE

\* connect that also sleeps after its last attempt
ConnectAttemptSleepLast(outcome) ==
    /\ pc = "connect"
    /\ IF outcome = "ok"
       THEN /\ newOpen' = TRUE
            /\ pc' = "create_tables"
            /\ UNCHANGED <<attempt, slept, dbOpen, leaked>>
       ELSE IF attempt < max_retries - 1
       THEN /\ slept' = slept + 1
            /\ attempt' = attempt + 1
            /\ UNCHANGED <<pc, newOpen, dbOpen, leaked>>
       ELSE /\ slept' = slept + 1
            /\ ConstructFailed
            /\ UNCHANGED <<attempt, newOpen, leaked>>
    /\ UNCHANGED <<phase, stats, strikes, frames, base, last, everConnected, stopped>>
    /\ UNCHANGED <<qVars, fnVars>>

\* One pass of the for loop of connect, lines 34-52.
ConnectAttempt(outcome) ==
    /\ pc = "connect"
    /\ IF outcome = "ok"
       THEN /\ newOpen' = TRUE
            /\ pc' = "create_tables"
            /\ UNCHANGED <<attempt, slept, dbOpen, leaked>>
       ELSE IF attempt < max_retries - 1
       THEN /\ slept' = slept + 1
            /\ attempt' = attempt + 1
            /\ UNCHANGED <<pc, newOpen, dbOpen, leaked>>
       ELSE /\ ConstructFailed
            /\ UNCHANGED <<attempt, slept, newOpen, leaked>>
    /\ UNCHANGED <<phase, stats, strikes, frames, base, last, everConnected, stopped>>
    /\ UNCHANGED <<qVars, fnVars>>

\* create_tables, lines 54-96, and the end of the constructor: at module
\* level the handle is bound to db and main starts; in the loop db is rebound
\* (line 384), which leaves the previous handle unreferenced.
CreateTables(ok) ==
    /\ pc = "create_tables"
    /\ IF ok
       THEN /\ stats' = EnsureStatsRow(stats)
            /\ newOpen' = FALSE
            /\ dbOpen' = TRUE
            /\ leaked' = IF phase = "loop" /\ dbOpen
                         THEN Min(leaked + 1, MaxLeaked) ELSE leaked
            /\ IF phase = "startup"
               THEN /\ pc' = "connect"
                    /\ phase' = "loop"
                    /\ attempt' = 0
                    /\ slept' = 0
               ELSE /\ pc' = "ws_connect"
                    /\ UNCHANGED <<phase, attempt, slept>>
       ELSE \* the exception leaves __init__ with self.conn open; in the loop
            \* the half-built handle is dropped, at module level the process dies
            /\ IF phase = "startup"
               THEN UNCHANGED <<newOpen, leaked>>
               ELSE /\ newOpen' = FALSE
                    /\ leaked' = Min(leaked + 1, MaxLeaked)
            /\ ConstructFailed
            /\ UNCHANGED <<stats, phase, attempt, slept>>
    /\ UNCHANGED <<strikes, frames, base, last, everConnected, stopped>>
    /\ UNCHANGED <<qVars, fnVars>>

-----------------------------------------------------------------------------
(* The websocket connection: ws.run_forever(), line 395 *)

\* the connection attempt of run_forever succeeds and on_open runs
WsOpen ==
    /\ pc = "ws_connect"
    /\ pc' = "streaming"
    /\ everConnected' = TRUE
    /\ UNCHANGED <<phase, attempt, slept, dbOpen, newOpen, leaked, stats, strikes,
                   frames, base, last, stopped>>
    /\ UNCHANGED <<qVars, fnVars>>

\* on_data, lines 335-359, for one frame
OnData(f, insertOk, statsOk) ==
    /\ pc = "streaming"
    /\ frames < MaxFrames
    /\ frames' = frames + 1
    /\ LET strike == Decode(f)
       IN  IF strike.kind = "raise"
           THEN /\ last' = [outcome |-> "error", inserted |-> FALSE,
                            statsOk |-> FALSE, escaped |-> TRUE]
                /\ UNCHANGED <<stats, strikes>>
           ELSE IF strike.kind = "rec"
           THEN /\ strikes' = InsertStrike(strikes, insertOk)
                /\ IF insertOk
                   THEN stats' = UpdateStats(stats, statsOk, 1, 1, 0)
                   ELSE stats' = UpdateStats(stats, statsOk, 1, 0, 1)
                /\ last' = [outcome |-> IF insertOk THEN "stored" ELSE "insert_fail",
                            inserted |-> insertOk, statsOk |-> statsOk,
                            escaped |-> FALSE]
           ELSE /\ stats' = UpdateStats(stats, statsOk, 1, 0, 1)
                /\ last' = [outcome |-> IF ExtractFields(f).kind = "rec"
                                        THEN "invalid" ELSE "extract_fail",
                            inserted |-> FALSE, statsOk |-> statsOk,
                            escaped |-> FALSE]
                /\ UNCHANGED strikes
    /\ UNCHANGED <<pc, phase, attempt, slept, dbOpen, newOpen, leaked, base,
                   everConnected, stopped>>
    /\ UNCHANGED <<qVars, fnVars>>

\* The connection fails to open, errors or closes (on_error/on_close run,
\* lines 366-373).  "return": run_forever returns and the try body of main
\* ends.  "raise": an exception reaches "except Exception", lines 401-406.
TransportEnd(how) ==
    /\ pc \in {"ws_connect", "streaming"}
    /\ IF how = "return"
       THEN /\ pc' = "returned"
            /\ UNCHANGED dbOpen
       ELSE /\ pc' = "backoff"
            /\ dbOpen' = FALSE
    /\ UNCHANGED <<phase, attempt, slept, newOpen, leaked, stats, strikes, frames,
                   base, last, everConnected, stopped>>
    /\ UNCHANGED <<qVars, fnVars>>

\* the try body ended without an exception: "while True" starts over, line 381
LoopAgain ==
    /\ pc = "returned"
    /\ pc' = "connect"
    /\ attempt' = 0
    /\ slept' = 0
    /\ UNCHANGED <<phase, dbOpen, newOpen, leaked, stats, strikes, frames, base,
                   last, everConnected, stopped>>
    /\ UNCHANGED <<qVars, fnVars>>

\* a backoff that gives up
BackoffDoneQuit ==
    /\ pc = "backoff"
    /\ pc' = "aborted"
    /\ UNCHANGED <<attempt, slept, phase, dbOpen, newOpen, leaked, stats, strikes,
                   frames, base, last, everConnected, stopped>>
    /\ UNCHANGED <<qVars, fnVars>>

\* time.sleep(5) of line 406 returns and the loop starts over
BackoffDone ==
    /\ pc = "backoff"
    /\ pc' = "connect"
    /\ attempt' = 0
    /\ slept' = 0
    /\ UNCHANGED <<phase, dbOpen, newOpen, leaked, stats, strikes, frames, base,
                   last, everConnected, stopped>>
    /\ UNCHANGED <<qVars, fnVars>>

\* a stop signal that is treated like a connection error
InterruptReconnect ==
    /\ phase = "loop"
    /\ pc \in {"connect", "create_tables", "ws_connect", "streaming", "returned"}
    /\ stopped' = TRUE
    /\ dbOpen' = FALSE
    /\ pc' = "backoff"
    /\ UNCHANGED <<phase, attempt, slept, newOpen, leaked, stats, strikes, frames,
                   base, last, everConnected>>
    /\ UNCHANGED <<qVars, fnVars>>

\* KeyboardInterrupt inside main.  In the try body: lines 397-400, db.close()
\* and break.  During the sleep of line 406 nothing catches it and main ends
\* with it; db was closed on line 405.
Interrupt ==
    /\ phase = "loop"
    /\ pc \in {"connect", "create_tables", "ws_connect", "streaming", "returned",
               "backoff"}
    /\ stopped' = TRUE
    /\ dbOpen' = FALSE
    /\ pc' = "done"
    /\ UNCHANGED <<phase, attempt, slept, newOpen, leaked, stats, strikes, frames,
                   base, last, everConnected>>
    /\ UNCHANGED <<qVars, fnVars>>

SupInit ==
    /\ pc = "connect"
    /\ phase = "startup"
    /\ attempt = 0
    /\ slept = 0
    /\ dbOpen = FALSE
    /\ newOpen = FALSE
    /\ leaked = 0
    /\ stats \in InitStats
    /\ base = stats.received
    /\ strikes = 0
    /\ frames = 0
    /\ last = NoEvent
    /\ everConnected = FALSE
    /\ stopped = FALSE

QIdle ==
    /\ table = <<>>
    /\ query = [limit |-> 0, since |-> 0]
    /\ result = <<>>

FnIdle ==
    /\ call = [op |-> "none"]
    /\ ret = [op |-> "none"]

Init == SupInit /\ QIdle /\ FnIdle

Next ==
    \/ \E outcome \in {"ok", "operational"} : ConnectAttempt(outcome)
    \/ \E ok \in BOOLEAN : CreateTables(ok)
    \/ WsOpen
    \/ \E f \in Frames, insertOk \in BOOLEAN, statsOk \in BOOLEAN :
           OnData(f, insertOk, statsOk)
    \/ \E how \in {"return", "raise"} : TransportEnd(how)
    \/ LoopAgain
    \/ BackoffDone
    \/ Interrupt

Spec == Init /\ [][Next]_vars

\* The process is scheduled: whenever it can take a step it eventually does.
FairSpec == Spec /\ WF_vars(Next)

-----------------------------------------------------------------------------
(* The proximity query: get_nearby_strikes, src/api.py lines 191-240.      *)
(* Coordinates are in units of 10^-4 degree, distances in metres.  The     *)
(* request is the one of the specification's example: center               *)
(* (32.7157, -117.1611), radius 50 km.                                     *)

CenterLat == 327157
CenterLon == -1171611
RadiusKm == 50

\* math.cos(math.radians(32.7157)) = 0.84136..., in thousandths
CosCenterE3 == 841

\* The stored positions the model draws from, with haversine_distance
\* (lines 66-78, R = 6371) from the center evaluated for each, in metres.
Points == {
    [lat |-> 327157, lon |-> -1171611, dist |-> 0],       \* the center
    [lat |-> 328057, lon |-> -1171611, dist |-> 10008],   \* 10.0075 km north
    [lat |-> 328057, lon |-> -1171581, dist |-> 10011],   \* 10.0115 km
    [lat |-> 327157, lon |-> -1168411, dist |-> 29938],   \* 29.9377 km east
    [lat |-> 331157, lon |-> -1166611, dist |-> 64472],   \* 64.4716 km, box corner
    [lat |-> 337157, lon |-> -1171611, dist |-> 111195] } \* 1 degree north

HaversineDistance(p) == p.dist

\* round(distance, 2): hundredths of a kilometre
Round2(m) == (m + 5) \div 10

\* the bounding box of lines 205-211 and the BETWEEN tests of lines 219-220:
\* |dlat| <= radius / 111 and |dlon| <= radius / (111 * cos(lat))
InBox(p) ==
    /\ Abs(p.lat - CenterLat) * 111 <= RadiusKm * 10000
    /\ Abs(p.lon - CenterLon) * 111 * CosCenterE3 <= RadiusKm * 10000 * 1000

\* rows of the table from index i down to 1 that the WHERE clause keeps:
\* ORDER BY strike_timestamp DESC
RECURSIVE Candidates(_, _, _)
Candidates(t, i, since) ==
    IF i = 0 THEN <<>>
    ELSE IF t[i].ts >= since /\ InBox(t[i].pos)
         THEN <<t[i]>> \o Candidates(t, i - 1, since)
         ELSE Candidates(t, i - 1, since)

Take(s, n) == SubSeq(s, 1, Min(n, Len(s)))

\* the SELECT of lines 216-224: LIMIT limit * 2
Fetch(t, since, limit) == Take(Candidates(t, Len(t), since), limit * 2)

\* the loop without its distance test: every fetched candidate is kept
RECURSIVE FilterInBoxOnly(_)
FilterInBoxOnly(s) ==
    IF s = <<>> THEN <<>>
    ELSE LET strike == Head(s)
         IN  <<[ts |-> strike.ts, pos |-> strike.pos,
                distance_km |-> Round2(HaversineDistance(strike.pos))]>>
             \o FilterInBoxOnly(Tail(s))

\* the loop of lines 228-233
RECURSIVE FilterByDistance(_)
FilterByDistance(s) ==
    IF s = <<>> THEN <<>>
    ELSE LET strike == Head(s)
             distance == HaversineDistance(strike.pos)
         IN  IF distance <= RadiusKm * 1000
             THEN <<[ts |-> strike.ts, pos |-> strike.pos,
                     distance_km |-> Round2(distance)]>>
                  \o FilterByDistance(Tail(s))
             ELSE FilterByDistance(Tail(s))

\* list.sort(key = distance_km), line 236: stable
RECURSIVE InsertByKey(_, _)
InsertByKey(s, x) ==
    IF s = <<>> THEN <<x>>
    ELSE IF Head(s).distance_km <= x.distance_km
         THEN <<Head(s)>> \o InsertByKey(Tail(s), x)
         ELSE <<x>> \o s

RECURSIVE SortByDistance(_)
SortByDistance(s) ==
    IF s = <<>> THEN <<>>
    ELSE InsertByKey(SortByDistance(SubSeq(s, 1, Len(s) - 1)), s[Len(s)])

NearbyStrikes(t, since, limit) ==
    Take(SortByDistance(FilterByDistance(Fetch(t, since, limit))), limit)

\* a strike is stored; its strike_timestamp is the newest of the table
AddRow(p) ==
    /\ Len(table) < MaxRows
    /\ table' = Append(table, [ts |-> Len(table) + 1, pos |-> p])
    /\ query' = [limit |-> 0, since |-> 0]
    /\ result' = <<>>
    /\ UNCHANGED <<supVars, fnVars>>

\* GET /strikes/nearby
Nearby(limit, since) ==
    /\ table # <<>>
    /\ query' = [limit |-> limit, since |-> since]
    /\ result' = NearbyStrikes(table, since, limit)
    /\ UNCHANGED <<table>>
    /\ UNCHANGED <<supVars, fnVars>>

QInit ==
    /\ SupInit
    /\ stats = Row(0, 0, 0)
    /\ QIdle
    /\ FnIdle

QNext ==
    \/ \E p \in Points : AddRow(p)
    \/ \E limit \in 1..MaxLimit, since \in 1..MaxRows : Nearby(limit, since)

SpecQuery == QInit /\ [][QNext]_vars

-----------------------------------------------------------------------------
(* The decoder's functions and the statistics endpoint, each applied to an *)
(* input drawn from a bounded set.  call holds the function and its input, *)
(* ret what it returned once it has been applied.                          *)

\* coordinates handed to _validate_strike; Unparsable stands for None
LatInputs == {Unparsable, Dec(0, 0), Dec(90, 0), Dec(-90, 0), Dec(900001, 4),
              Dec(-900001, 4), Dec(91, 0)}
LonInputs == {Unparsable, Dec(-1171611, 4), Dec(180, 0), Dec(-180, 0),
              Dec(1800001, 4), Dec(-1800001, 4), Dec(181, 0)}

\* self._validate_strike(strike), line 216
Validate ==
    /\ call.op = "validate"
    /\ ret.op = "none"
    /\ ret' = [op |-> "validate", ok |-> ValidateStrike(call.lat, call.lon)]
    /\ UNCHANGED <<supVars, qVars, call>>

\* the strings lon_match.group(1) handed to _fix_longitude, as decimals
LonStrings == {Unparsable, Dec(452, 1), Dec(-1171611, 4), Dec(1000, 0),
               Dec(-1000, 0), Dec(10001, 1), Dec(1001, 0), Dec(12345, 0),
               Dec(-54321, 0), Dec(123456, 0), Dec(-999999, 0), Dec(180000, 0),
               Dec(1604008, 0), Dec(-1613330, 0), Dec(16040085, 1),
               Dec(12345678, 0), Dec(-87654321, 0), Dec(123456789, 0),
               Dec(-987654321, 0), Dec(1234567890, 0)}

\* self._fix_longitude(lon_match.group(1)), line 252
Repair ==
    /\ call.op = "repair"
    /\ ret.op = "none"
    /\ ret' = [op |-> "repair", lon |-> FixLongitude(call.lon)]
    /\ UNCHANGED <<supVars, qVars, call>>

\* The raw timestamp int(time_match.group(1)), line 234, written in base 10^6:
\* <<a, b, c>> is a * 10^12 + b * 10^6 + c.  An instant is a number of
\* microseconds since the epoch, <<d3, d2, d1, d0>> in the same base.
\* fromtimestamp rounds to the microsecond, which is exact for the quotients
\* raw / 1000 and raw / 1000000 of the inputs drawn here.
RawTimestamps == {
    <<0, 0, 0>>,
    <<0, 1700, 0>>,            \* 1700000000
    <<1, 700000, 0>>,          \* 1700000000000
    <<1700, 0, 0>>,            \* 1700000000000000
    <<1, 700000, 123>>,        \* 1700000000123
    <<1700, 0, 123456>>,       \* 1700000000123456
    <<0, 253402, 300799>>,     \* the last second of year 9999
    <<0, 253402, 300800>>,
    <<0, 999999, 999999>>,     \* 10^12 - 1
    <<1, 0, 0>>,               \* 10^12
    <<1, 0, 1>>,               \* 10^12 + 1
    <<999, 999999, 999999>>,   \* 10^15 - 1
    <<1000, 0, 0>>,            \* 10^15
    <<1000, 0, 1>> }           \* 10^15 + 1

\* raw > a * 10^12
Exceeds(raw, a) == raw[1] > a \/ (raw[1] = a /\ (raw[2] > 0 \/ raw[3] > 0))

\* raw * 1000
Times1000(raw) ==
    LET c == raw[3] * 1000
        b == raw[2] * 1000 + c \div Pow10(6)
        a == raw[1] * 1000 + b \div Pow10(6)
    IN  <<a \div Pow10(6), a % Pow10(6), b % Pow10(6), c % Pow10(6)>>

\* datetime.fromtimestamp raises for an instant after year 9999
YearOutOfRange(micros) ==
    \/ micros[1] > 0
    \/ micros[2] > 253402
    \/ micros[2] = 253402 /\ micros[3] >= 300800

Instant(unit, micros) ==
    [unit |-> unit, raises |-> YearOutOfRange(micros), micros |-> micros]

\* a conversion whose thresholds belong to the larger unit
NormalizeTimestampInclusive(raw) ==
    IF Exceeds(raw, 1000) \/ raw = <<1000, 0, 0>>
    THEN Instant("us", <<0, raw[1], raw[2], raw[3]>>)
    ELSE IF Exceeds(raw, 1) \/ raw = <<1, 0, 0>>
    THEN Instant("ms", Times1000(raw))
    ELSE Instant("s", <<raw[1], raw[2], raw[3], 0>>)

\* the conversion to datetime of _extract_fields, lines 236-242
NormalizeTimestamp(raw) ==
    IF Exceeds(raw, 1000)                                  \* > 1e15
    THEN Instant("us", <<0, raw[1], raw[2], raw[3]>>)      \* raw / 1000000
    ELSE IF Exceeds(raw, 1)                                \* > 1e12
    THEN Instant("ms", Times1000(raw))                     \* raw / 1000
    ELSE Instant("s", <<raw[1], raw[2], raw[3], 0>>)

Normalize ==
    /\ call.op = "normalize"
    /\ ret.op = "none"
    /\ ret' = [op |-> "normalize", t |-> NormalizeTimestamp(call.raw)]
    /\ UNCHANGED <<supVars, qVars, call>>

\* a rate that is 100 when nothing was received
SuccessRateDefaultFull(total, stored) ==
    IF total > 0 THEN (2 * stored * 10000 + total) \div (2 * total) ELSE 10000

\* lines 292-299: round(stored / total * 100 if total > 0 else 0, 2), in
\* hundredths of a percent
SuccessRate(total, stored) ==
    IF total > 0 THEN (2 * stored * 10000 + total) \div (2 * total) ELSE 0

\* get_ingestion_stats, lines 279-301.  readOk: get_db_connection and the
\* SELECT succeed.  The HTTPException of line 290 is raised inside the try
\* block and is an Exception: the except clause of line 300 turns it into 500.
GetIngestionStats(row, readOk) ==
    IF ~readOk THEN [status |-> 500, success_rate |-> 0]
    ELSE IF ~row.exists THEN [status |-> 500, success_rate |-> 0]
    ELSE [status |-> 200,
          success_rate |-> SuccessRate(row.received, row.stored)]

\* the rows SELECT * FROM ingestion_stats LIMIT 1 may find
StatsRows ==
    {NoRow} \cup {Row(c[1], c[2], c[1] - c[2]) :
                     c \in {d \in (0..MaxReceived) \X (0..MaxReceived) : d[2] <= d[1]}}

\* GET /ingestion/stats
StatsRequest ==
    /\ call.op = "stats"
    /\ ret.op = "none"
    /\ ret' = [op |-> "stats",
               response |-> GetIngestionStats(call.row, call.readOk)]
    /\ UNCHANGED <<supVars, qVars, call>>

\* The substitution table of lines 165-195, in the order of the dict: key is
\* the 2-byte sequence, out the bytes that replace it.  b'\xc4\x8e' is written
\* twice in the source, with the same value; the dict holds it once.
substitutions == <<
    [key |-> <<196, 136>>, out |-> <<48>>], [key |-> <<196, 137>>, out |-> <<49>>],
    [key |-> <<196, 138>>, out |-> <<50>>], [key |-> <<196, 139>>, out |-> <<51>>],
    [key |-> <<196, 140>>, out |-> <<52>>], [key |-> <<196, 141>>, out |-> <<53>>],
    [key |-> <<196, 142>>, out |-> <<54>>], [key |-> <<196, 143>>, out |-> <<55>>],
    [key |-> <<196, 144>>, out |-> <<56>>], [key |-> <<196, 145>>, out |-> <<57>>],
    [key |-> <<196, 146>>, out |-> <<50>>], [key |-> <<196, 147>>, out |-> <<51>>],
    [key |-> <<196, 148>>, out |-> <<52>>], [key |-> <<196, 149>>, out |-> <<53>>],
    [key |-> <<196, 150>>, out |-> <<54>>], [key |-> <<196, 151>>, out |-> <<55>>],
    [key |-> <<196, 152>>, out |-> <<56>>], [key |-> <<196, 153>>, out |-> <<57>>],
    [key |-> <<196, 154>>, out |-> <<48>>], [key |-> <<196, 155>>, out |-> <<49>>],
    [key |-> <<196, 160>>, out |-> <<48>>], [key |-> <<196, 161>>, out |-> <<49>>],
    [key |-> <<196, 162>>, out |-> <<50>>], [key |-> <<196, 163>>, out |-> <<51>>],
    [key |-> <<196, 164>>, out |-> <<52>>], [key |-> <<196, 165>>, out |-> <<53>>],
    [key |-> <<196, 166>>, out |-> <<54>>], [key |-> <<196, 167>>, out |-> <<55>>],
    [key |-> <<196, 168>>, out |-> <<56>>], [key |-> <<196, 169>>, out |-> <<57>>],
    [key |-> <<196, 134>>, out |-> <<58, 32>>], [key |-> <<196, 135>>, out |-> <<46>>],
    [key |-> <<196, 184>>, out |-> <<34>>], [key |-> <<196, 185>>, out |-> <<34>>],
    [key |-> <<196, 186>>, out |-> <<34>>], [key |-> <<196, 187>>, out |-> <<34>>],
    [key |-> <<196, 188>>, out |-> <<34>>], [key |-> <<196, 189>>, out |-> <<34>>],
    [key |-> <<196, 156>>, out |-> <<34>>], [key |-> <<196, 157>>, out |-> <<34>>],
    [key |-> <<196, 158>>, out |-> <<34>>], [key |-> <<196, 159>>, out |-> <<34>>],
    [key |-> <<196, 176>>, out |-> <<34>>], [key |-> <<196, 177>>, out |-> <<34>>],
    [key |-> <<196, 178>>, out |-> <<34>>], [key |-> <<196, 179>>, out |-> <<34>>],
    [key |-> <<196, 180>>, out |-> <<34>>], [key |-> <<196, 181>>, out |-> <<34>>],
    [key |-> <<196, 172>>, out |-> <<>>], [key |-> <<197, 134>>, out |-> <<54>>],
    [key |-> <<196, 171>>, out |-> <<>>], [key |-> <<196, 170>>, out |-> <<>>],
    [key |-> <<196, 182>>, out |-> <<>>], [key |-> <<197, 128>>, out |-> <<>>],
    [key |-> <<197, 132>>, out |-> <<52>>], [key |-> <<197, 129>>, out |-> <<>>],
    [key |-> <<196, 173>>, out |-> <<>>], [key |-> <<197, 133>>, out |-> <<53>>],
    [key |-> <<197, 137>>, out |-> <<57>>], [key |-> <<197, 136>>, out |-> <<56>>],
    [key |-> <<196, 128>>, out |-> <<>>], [key |-> <<197, 155>>, out |-> <<>>],
    [key |-> <<197, 141>>, out |-> <<>>], [key |-> <<196, 129>>, out |-> <<>>],
    [key |-> <<196, 131>>, out |-> <<>>], [key |-> <<196, 133>>, out |-> <<>>],
    [key |-> <<196, 174>>, out |-> <<>>], [key |-> <<196, 190>>, out |-> <<>>] >>

\* a replace that stops after the first occurrence
RECURSIVE ReplaceFirst(_, _, _)
ReplaceFirst(s, key, out) ==
    IF Len(s) < 2 THEN s
    ELSE IF s[1] = key[1] /\ s[2] = key[2]
         THEN out \o SubSeq(s, 3, Len(s))
         ELSE <<s[1]>> \o ReplaceFirst(Tail(s), key, out)

\* bytearray.replace(compressed, original), line 208: every occurrence, found
\* from left to right
RECURSIVE ReplaceAll(_, _, _)
ReplaceAll(s, key, out) ==
    IF Len(s) < 2 THEN s
    ELSE IF s[1] = key[1] /\ s[2] = key[2]
         THEN out \o ReplaceAll(SubSeq(s, 3, Len(s)), key, out)
         ELSE <<s[1]>> \o ReplaceAll(Tail(s), key, out)

\* the loop of lines 207-208 over a sequence of table entries
RECURSIVE Substitute(_, _)
Substitute(s, entries) ==
    IF s = <<>> \/ entries = <<>> THEN s       \* nothing left to replace
    ELSE Substitute(ReplaceAll(s, Head(entries).key, Head(entries).out),
                    Tail(entries))

\* The bytes frames are made of here: the lead bytes 0xc4 and 0xc5, the
\* continuation bytes 0x88 (c4 88 is '0', c5 88 is '8') and 0xac (c4 ac is
\* deleted, c5 ac is not in the table), and the letter 'A'.
Alphabet == {196, 197, 136, 172, 65}
Payloads == UNION {[1..n -> Alphabet] : n \in 1..MaxBytes}

\* result = bytearray(data) and the substitution loop, lines 206-208
ApplySubstitutions ==
    /\ call.op = "substitute"
    /\ ret.op = "none"
    /\ ret' = [op |-> "substitute",
               out |-> Substitute(call.data, substitutions)]
    /\ UNCHANGED <<supVars, qVars, call>>

\* self._extract_fields(decoded), line 214
Extract ==
    /\ call.op = "extract"
    /\ ret.op = "none"
    /\ ret' = [op |-> "extract", strike |-> ExtractFields(call.frame)]
    /\ UNCHANGED <<supVars, qVars, call>>

\* The bounding box of lines 205-211 and 219-220 for any center c, with
\* c.cosE3 = math.cos(math.radians(lat)) in thousandths; r in km, coordinates
\* in 10^-4 degree.  BETWEEN compares the stored longitude as a number.
InBoundingBox(c, r, p) ==
    /\ Abs(p.lat - c.lat) * 111 <= r * 10000
    /\ Abs(p.lon - c.lon) <= (r * 10000 * 1000) \div (111 * c.cosE3)

\* Centers of requests: the one of the example and two on the equator, 0.1
\* degree on either side of the meridian of +180/-180.
ExampleCenter == [lat |-> CenterLat, lon |-> CenterLon, cosE3 |-> CosCenterE3]
EastCenter == [lat |-> 0, lon |-> 1799000, cosE3 |-> 1000]
WestCenter == [lat |-> 0, lon |-> -1799000, cosE3 |-> 1000]

\* stored positions with haversine_distance from EastCenter, in metres
EastPoints == {
    [lat |-> 0, lon |-> 1799000, dist |-> 0],
    [lat |-> 0, lon |-> 1799500, dist |-> 5560],
    [lat |-> 1000, lon |-> 1800000, dist |-> 15725],
    [lat |-> 1000, lon |-> -1800000, dist |-> 15725],
    [lat |-> 0, lon |-> -1799000, dist |-> 22239],
    [lat |-> 2000, lon |-> -1798000, dist |-> 40092],
    [lat |-> 3000, lon |-> 1796000, dist |-> 47176],
    [lat |-> 0, lon |-> 1790000, dist |-> 100075],
    [lat |-> 0, lon |-> -1790000, dist |-> 122314] }

\* the same, from WestCenter
WestPoints == {
    [lat |-> 0, lon |-> -1799000, dist |-> 0],
    [lat |-> 0, lon |-> -1799500, dist |-> 5560],
    [lat |-> 1000, lon |-> -1800000, dist |-> 15725],
    [lat |-> 1000, lon |-> 1800000, dist |-> 15725],
    [lat |-> 0, lon |-> 1799000, dist |-> 22239],
    [lat |-> 2000, lon |-> -1798000, dist |-> 24864],
    [lat |-> 3000, lon |-> 1796000, dist |-> 64837],
    [lat |-> 0, lon |-> -1790000, dist |-> 100075],
    [lat |-> 0, lon |-> 1790000, dist |-> 122314] }

BoxCases ==
    {[center |-> ExampleCenter, pos |-> p] : p \in Points}
    \cup {[center |-> EastCenter, pos |-> p] : p \in EastPoints}
    \cup {[center |-> WestCenter, pos |-> p] : p \in WestPoints}

\* the WHERE clause of lines 216-223 and the distance of line 229 for one
\* stored record of the time window
BoxTest ==
    /\ call.op = "box"
    /\ ret.op = "none"
    /\ ret' = [op |-> "box",
               inBox |-> InBoundingBox(call.center, RadiusKm, call.pos),
               distance |-> HaversineDistance(call.pos)]
    /\ UNCHANGED <<supVars, qVars, call>>

\* the calls made, one per behaviour
Calls ==
    {[op |-> "validate", lat |-> lat, lon |-> lon] :
         lat \in LatInputs, lon \in LonInputs}
    \cup {[op |-> "repair", lon |-> lon] : lon \in LonStrings}
    \cup {[op |-> "normalize", raw |-> raw] : raw \in RawTimestamps}
    \cup {[op |-> "stats", row |-> row, readOk |-> readOk] :
              row \in StatsRows, readOk \in BOOLEAN}
    \cup {[op |-> "extract", frame |-> f] : f \in Frames}
    \cup {[op |-> "substitute", data |-> data] : data \in Payloads}
    \cup {[op |-> "box", center |-> bc.center, pos |-> bc.pos] : bc \in BoxCases}

FnInit ==
    /\ SupInit
    /\ stats = Row(0, 0, 0)
    /\ QIdle
    /\ call \in Calls
    /\ ret = [op |-> "none"]

FnNext ==
    \/ Validate
    \/ Repair
    \/ Normalize
    \/ StatsRequest
    \/ Extract
    \/ ApplySubstitutions
    \/ BoxTest

SpecFn == FnInit /\ [][FnNext]_vars

-----------------------------------------------------------------------------
(* Properties of the ingestion supervisor *)

FrameHandled == frames' = frames + 1

\* C1: a frame whose extraction or validation fails stores no record, adds
\* exactly 1 to total_received and to total_failed and leaves total_stored.
C1_FailedFrameCounted ==
    [][(FrameHandled /\ last'.outcome \in {"extract_fail", "invalid"})
        => /\ strikes' = strikes
           /\ stats'.received = stats.received + 1
           /\ stats'.failed = stats.failed + 1
           /\ stats'.stored = stats.stored]_vars

\* C2: a frame that decodes and validates is inserted once; a successful
\* insert adds 1 to total_received and total_stored, a failed one adds 1 to
\* total_received and total_failed and stores nothing.
C2_InsertOutcomeCounted ==
    [][(FrameHandled /\ last'.outcome \in {"stored", "insert_fail"})
        => IF last'.inserted
           THEN /\ strikes' = strikes + 1
                /\ stats'.received = stats.received + 1
                /\ stats'.stored = stats.stored + 1
                /\ stats'.failed = stats.failed
           ELSE /\ strikes' = strikes
                /\ stats'.received = stats.received + 1
                /\ stats'.failed = stats.failed + 1
                /\ stats'.stored = stats.stored]_vars

\* C3: after n frames, whatever their outcomes and whatever store writes
\* failed, total_received is its initial value plus n.
C3_ReceivedCountsEveryFrame ==
    stats.exists => stats.received = base + frames

\* C4: total_received, total_stored and total_failed never decrease, across
\* frames, stats-write failures, reconnects and re-run table creation.
C4_CountersMonotone ==
    [][/\ stats'.received >= stats.received
       /\ stats'.stored >= stats.stored
       /\ stats'.failed >= stats.failed]_vars

\* frames were counted, one stats write failed, and the loop came round
\* again: a new handle was built and create_tables re-run
C4_Witness ==
    /\ pc = "ws_connect"
    /\ frames >= 2
    /\ stats.received = base + 1

\* C5: handling a frame never lets an error out of on_data, and the
\* supervisor is still streaming afterwards (where on_data takes the next frame).
C5_NoFrameHaltsStream ==
    [][FrameHandled
        => /\ ~last'.escaped
           /\ pc' = "streaming"]_vars

\* a rejected insert followed the handling of an earlier frame
C5_Witness ==
    /\ pc = "streaming"
    /\ frames >= 2
    /\ last.outcome = "insert_fail"
    /\ ~last.escaped

\* C6: inside main every new connection attempt follows the backoff delay:
\* the loop is re-entered only from the sleep of line 406.
C6_BackoffBeforeReconnect ==
    [][(phase = "loop" /\ pc # "connect" /\ pc' = "connect")
        => pc = "backoff"]_vars

\* C7: a transport failure never terminates the supervisor, and after every
\* connection end it connects again unless the stop signal arrives.
C7_ReconnectUnbounded ==
    /\ [](pc = "done" => stopped)
    /\ [](pc = "aborted" => phase = "startup")
    /\ (pc \in {"returned", "backoff"}) ~> (pc = "connect" \/ stopped)

\* after an upstream connection and a raised transport error the loop is
\* connecting again
C7_Witness ==
    /\ pc = "connect"
    /\ phase = "loop"
    /\ everConnected
    /\ ~dbOpen
    /\ ~stopped

\* C8 as stated: ingestion aborts only when all 5 connection attempts failed
\* at process start.
C8_OnlyExhaustedConnectAborts ==
    pc = "aborted" =>
        /\ phase = "startup"
        /\ ~everConnected
        /\ ~newOpen
        /\ attempt = max_retries - 1

\* C8 amended: connect makes at most 5 attempts and sleeps after each failed
\* one but the last; ingestion aborts only at process start, before any
\* upstream connection, when the attempts are exhausted or table creation
\* fails on the connection just opened.
C8_StartupAbort ==
    /\ attempt <= max_retries - 1
    /\ slept = attempt
    /\ pc = "aborted" =>
          /\ phase = "startup"
          /\ ~everConnected
          /\ (newOpen \/ attempt = max_retries - 1)

\* all five attempts failed at process start
C8_Witness ==
    /\ pc = "aborted"
    /\ ~newOpen
    /\ attempt = max_retries - 1
    /\ slept = max_retries - 1

-----------------------------------------------------------------------------
(* Properties of the proximity query *)

InWindow(since) == {i \in 1..Len(table) : table[i].ts >= since}
Matching(since) ==
    {i \in InWindow(since) : HaversineDistance(table[i].pos) <= RadiusKm * 1000}
Returned == {result[j].ts : j \in 1..Len(result)}

\* C10: the query returns min(limit, n) of the n records in the window and
\* within the radius, and no omitted one is strictly nearer than a returned one.
C10_NearestReturned ==
    query.limit > 0 =>
        LET M == Matching(query.since)
        IN  /\ Len(result) = Min(query.limit, Cardinality(M))
            /\ \A i \in M \ Returned : \A j \in 1..Len(result) :
                   ~(HaversineDistance(table[i].pos)
                       < HaversineDistance(result[j].pos))

\* C11: every record the query returns lies within the radius by its exact
\* great-circle distance; a candidate inside the bounding box but farther
\* than the radius is never returned.
C11_WithinRadius ==
    \A j \in 1..Len(result) :
        HaversineDistance(result[j].pos) <= RadiusKm * 1000

\* the example of the test pipeline: strikes at 0, 10 and about 60 km are in
\* the box and in the window, and exactly the first two are returned
C11_Witness ==
    /\ query.limit = 2
    /\ \E i \in InWindow(query.since) :
           /\ InBox(table[i].pos)
           /\ HaversineDistance(table[i].pos) > RadiusKm * 1000
           /\ Len(table) - i < 2 * query.limit
    /\ {HaversineDistance(result[j].pos) : j \in 1..Len(result)} = {0, 10008}

\* C12: the records are returned in ascending order of their exact distance
\* from the center.
C12_AscendingExactDistance ==
    \A j \in 1..Len(result), k \in 1..Len(result) :
        j < k => HaversineDistance(result[j].pos)
                     <= HaversineDistance(result[k].pos)

-----------------------------------------------------------------------------
(* Properties of the decoder's functions and of the statistics endpoint *)

\* C13: the validator accepts a record exactly when latitude and longitude
\* are both present, -90 <= latitude <= 90 and -180 <= longitude <= 180; the
\* bounds 90, -90, 180 and -180 are accepted, 90.0001 and 180.0001 rejected.
C13_ValidatorBounds ==
    ret.op = "validate" =>
        LET lat == call.lat
            lon == call.lon
            accepted ==
                /\ lat.k = "num"
                /\ lon.k = "num"
                /\ -90 * Pow10(lat.e) <= lat.n
                /\ lat.n <= 90 * Pow10(lat.e)
                /\ -180 * Pow10(lon.e) <= lon.n
                /\ lon.n <= 180 * Pow10(lon.e)
        IN  /\ ret.ok <=> accepted
            /\ lat \in {Dec(90, 0), Dec(-90, 0)}
                 /\ lon \in {Dec(180, 0), Dec(-180, 0)} => ret.ok
            /\ lat = Dec(900001, 4) \/ lon = Dec(1800001, 4) => ~ret.ok

\* latitude -90 with longitude 180 was validated and accepted
C13_Witness ==
    /\ ret.op = "validate"
    /\ call.lat = Dec(-90, 0)
    /\ call.lon = Dec(180, 0)
    /\ ret.ok

\* the input of the repair: its magnitude exceeds 1000, and the digit string
\* of its integer part
Repaired == ret.op = "repair" /\ call.lon.k = "num"
RepairDigits == Abs(call.lon.n) \div Pow10(call.lon.e)
RepairSign == IF call.lon.n < 0 THEN -1 ELSE 1
RepairLarge == Abs(call.lon.n) > 1000 * Pow10(call.lon.e)

\* C14: the longitude repair returns v unchanged when |v| <= 1000; when
\* |v| > 1000 and the digit string of the absolute integer part has 7 or 8
\* digits it puts the decimal point after the first 2 digits and keeps the
\* sign of v (1604008 gives 16.04008, -1613330 gives -16.13330).
C14_RepairTwoDigits ==
    Repaired =>
        /\ ~RepairLarge => ret.lon = call.lon
        /\ RepairLarge /\ StrLen(RepairDigits) \in {7, 8} =>
               ret.lon = Dec(RepairSign * RepairDigits, StrLen(RepairDigits) - 2)
        /\ call.lon = Dec(1604008, 0) => ret.lon = Dec(1604008, 5)
        /\ call.lon = Dec(-1613330, 0) => ret.lon = Dec(-1613330, 5)

\* -1613330 was repaired to -16.13330
C14_Witness ==
    /\ Repaired
    /\ call.lon = Dec(-1613330, 0)
    /\ ret.lon = Dec(-1613330, 5)

\* the digit string m of length len read with its decimal point at position
\* i has a magnitude of at most 180
PointQualifies(m, len, i) ==
    \/ m \div Pow10(len - i) < 180
    \/ m \div Pow10(len - i) = 180 /\ m % Pow10(len - i) = 0

\* the first qualifying position of the scan i = 1 .. len-1 gives the result,
\* with the sign of v; the input itself is the result if none qualifies
ScanResult ==
    LET len == StrLen(RepairDigits)
        Q == {i \in 1..(len - 1) : PointQualifies(RepairDigits, len, i)}
    IN  IF Q = {} THEN ret.lon = call.lon
        ELSE \E i \in Q :
                 /\ \A j \in Q : i <= j
                 /\ ret.lon = Dec(RepairSign * RepairDigits, len - i)

\* C17 as stated: whenever |v| > 1000 and the digit string has a length other
\* than 7 or 8 (4, 5, 6, 9 or more), the repair returns the result of the scan.
C17_ScanEveryOtherLength ==
    Repaired /\ RepairLarge /\ StrLen(RepairDigits) \notin {7, 8} => ScanResult

\* C17, amended: the scan is made for a digit string of 6 digits or of 9 and
\* more; an input whose digit string has 4 or 5 digits is returned unchanged.
C17_ScanFromSixDigits ==
    Repaired /\ RepairLarge /\ StrLen(RepairDigits) \notin {7, 8} =>
        IF StrLen(RepairDigits) >= 6 THEN ScanResult ELSE ret.lon = call.lon

\* a negative 9 digit input was repaired by the scan: -9.87654321
C17_Witness ==
    /\ Repaired
    /\ call.lon = Dec(-987654321, 0)
    /\ ret.lon = Dec(-987654321, 8)

\* C15: the unit of the raw timestamp is chosen by its magnitude alone:
\* microseconds above 10^15, else milliseconds above 10^12, else seconds, so
\* that exactly 10^12 is read as seconds and exactly 10^15 as milliseconds;
\* 1700000000, 1700000000000 and 1700000000000000 give the same instant.
C15_UnitByMagnitude ==
    ret.op = "normalize" =>
        LET raw == call.raw
            t == ret.t
        IN  /\ raw \in {<<1000, 0, 1>>, <<1700, 0, 0>>, <<1700, 0, 123456>>}
                 <=> t.unit = "us"
            /\ raw \in {<<0, 0, 0>>, <<0, 1700, 0>>, <<0, 253402, 300799>>,
                        <<0, 253402, 300800>>, <<0, 999999, 999999>>, <<1, 0, 0>>}
                 <=> t.unit = "s"
            /\ raw = <<1000, 0, 0>> => t.unit = "ms"
            /\ t.unit \in {"us", "ms", "s"}
            /\ raw \in {<<0, 1700, 0>>, <<1, 700000, 0>>, <<1700, 0, 0>>} =>
                   ~t.raises /\ t.micros = <<0, 1700, 0, 0>>
            /\ raw = <<1, 700000, 123>> => t.micros = <<0, 1700, 0, 123000>>
            /\ raw = <<1700, 0, 123456>> => t.micros = <<0, 1700, 0, 123456>>

\* the millisecond form of the example instant was normalized
C15_Witness ==
    /\ ret.op = "normalize"
    /\ call.raw = <<1, 700000, 0>>
    /\ ret.t = [unit |-> "ms", raises |-> FALSE, micros |-> <<0, 1700, 0, 0>>]

\* C16: the success rate reported with the statistics is 0 when
\* total_received is 0, without a division fault, and stored / received * 100
\* otherwise; received 10 and stored 7 give 70.0.
C16_SuccessRate ==
    ret.op = "stats" /\ call.readOk /\ call.row.exists =>
        LET received == call.row.received
            stored == call.row.stored
            rate == ret.response.success_rate
        IN  /\ ret.response.status = 200
            /\ received = 0 => rate = 0
            \* the hundredth of a percent nearest to stored / received * 100
            /\ received > 0 =>
                   2 * Abs(rate * received - stored * 10000) <= received
            /\ received = 10 /\ stored = 7 => rate = 7000

\* the statistics were read while nothing had been received yet
C16_Witness ==
    /\ ret.op = "stats"
    /\ call.readOk
    /\ call.row = Row(0, 0, 0)
    /\ ret.response = [status |-> 200, success_rate |-> 0]

\* C20: when ingestion_stats holds no row the endpoint answers 404; it
\* answers 500 only when reading the store fails.
C20_NoRowIs404 ==
    ret.op = "stats" =>
        /\ call.readOk /\ ~call.row.exists => ret.response.status = 404
        /\ ret.response.status = 500 => ~call.readOk

\* C18: the optional fields are independent of the mandatory ones: when the
\* time, the latitude and the longitude are extracted a record is produced,
\* whatever happens to alt, pol, mds and mcg; an optional field whose pattern
\* matches but whose value does not parse is absent from the record and does
\* not make the extraction fail.
C18_OptionalFieldsIndependent ==
    ret.op = "extract" =>
        LET f == call.frame
        IN  f.time = "ok" /\ f.lat.k = "num" /\ f.lon.k # "none" =>
                /\ ret.strike.kind = "rec"
                /\ ret.strike.lat = f.lat

\* The table entries that can match while data is being substituted: both
\* bytes of the key occur in data.  Every replacement is ASCII or empty, so a
\* key with a byte that data lacks matches at no time, in whatever order the
\* entries are applied; the orders of the whole table differ only in how
\* they arrange these entries.
Occurs(b, data) == \E i \in 1..Len(data) : data[i] = b
RelevantEntries(data) ==
    SelectSeq(substitutions,
              LAMBDA en : Occurs(en.key[1], data) /\ Occurs(en.key[2], data))
Orders(data) ==
    LET es == RelevantEntries(data)
    IN  {[i \in 1..Len(es) |-> es[f[i]]] : f \in Permutations(1..Len(es))}

\* no 2-byte sequence of the table is left in s
NoMappedPair(s) ==
    \A i \in 1..(Len(s) - 1) : \A j \in 1..Len(substitutions) :
        ~(s[i] = substitutions[j].key[1] /\ s[i + 1] = substitutions[j].key[2])

OrderIndependent ==
    /\ \A es \in Orders(call.data) : Substitute(call.data, es) = ret.out
    /\ NoMappedPair(ret.out)

\* C19 as stated: for every input byte sequence, applying the table entries
\* in any order gives the output of the order the code uses, and the output
\* contains no mapped 2-byte sequence.
C19_AnyInputOrderIndependent ==
    ret.op = "substitute" => OrderIndependent

\* each lead byte 0xc4 or 0xc5 is directly followed by a continuation byte
\* 0x80..0xbf, as in every well-formed UTF-8 text
LeadBytesPaired(data) ==
    \A i \in 1..Len(data) :
        data[i] \in {196, 197} =>
            i < Len(data) /\ data[i + 1] \in 128..191

\* C19, amended: for every input in which each lead byte is directly followed
\* by a continuation byte, the output does not depend on the order of the
\* table entries and contains no mapped 2-byte sequence.
C19_PairedInputOrderIndependent ==
    ret.op = "substitute" /\ LeadBytesPaired(call.data) => OrderIndependent

\* a deleted sequence followed by a sequence that is replaced later: c4 ac c5 88
\* became '8'
C19_Witness ==
    /\ ret.op = "substitute"
    /\ call.data = <<196, 172, 197, 136>>
    /\ LeadBytesPaired(call.data)
    /\ ret.out = <<56>>

-----------------------------------------------------------------------------
(* Properties of the durable aggregate and of the storage handles *)

\* C21: in every state of the ingestion_stats row, which is every state a
\* reader of the serving layer can observe while ingestion runs,
\* total_received = total_stored + total_failed: no reader sees one counter of
\* a frame's update without the other.
C21_CountersConsistent ==
    stats.exists => stats.received = stats.stored + stats.failed

\* starting from the zero row, frames were counted as stored and as failed,
\* and the stats update of another frame failed
C21_Witness ==
    /\ stats.exists
    /\ base = 0
    /\ stats.stored > 0
    /\ stats.failed > 0
    /\ stats.received - base < frames

\* C22: after each frame has been handled, total_stored equals the number of
\* strike records persisted since the counters were zero, whatever frames
\* arrive and whichever store writes fail.
C22_StoredEqualsPersisted ==
    base = 0 /\ stats.exists => stats.stored = strikes

\* storage connections that are open: the one of the handle bound to db, the
\* one of the handle under construction, and those no name refers to
OpenConnections ==
    (IF dbOpen THEN 1 ELSE 0) + (IF newOpen THEN 1 ELSE 0) + leaked

\* C23: the supervisor holds at most one open storage connection at any
\* time: every handle it opened is closed before the next one is opened.
C23_OneOpenConnection ==
    OpenConnections <= 1

-----------------------------------------------------------------------------
(* Properties of the bounding box *)

\* C24: the bounding box has no false negatives: a stored record whose exact
\* distance to the center is at most the radius satisfies the box predicate,
\* also when the center is close to longitude +180/-180 and the record lies
\* on the other side of that meridian.
C24_BoxHasNoFalseNegatives ==
    ret.op = "box" =>
        (ret.distance <= RadiusKm * 1000 => ret.inBox)

=============================================================================
